---------------------------- MODULE Spec2Model ----------------------------
(***************************************************************************)
(* Habit-tracker backend (src/main.py): the request handlers over the two  *)
(* collections "habit" and "habitlog" of the document store.               *)
(*                                                                         *)
(* Strings that the code compares or parses (ids, ISO days, range bounds)  *)
(* are sequences of character codes, so that parsing, formatting and       *)
(* lexicographic comparison are computed, not assumed.  An Optional value  *)
(* is None (the empty tuple) or Some(v) (the one-element tuple).           *)
(***************************************************************************)
EXTENDS Integers, Sequences, FiniteSets, TLC

VARIABLES
    db,        \* the store handle of database.py: None (unconfigured) or Some(name)
    habit,     \* collection "habit": a set of documents
    habitlog,  \* collection "habitlog": a set of documents
    oid_inc,   \* the ObjectId generator's counter
    now,       \* the wall clock read by datetime.utcnow(), in store (millisecond) units
    last,      \* the call being answered (NoCall when the server is idle): see Call
    calls      \* per worker, the call it is running one store operation at a
               \* time (NoStep when it runs none): see the section on steps

vars == <<db, habit, habitlog, oid_inc, now, last, calls>>
store == <<db, habit, habitlog, oid_inc>>

None == <<>>
Some(v) == <<v>>

(* ------------------------------ bounds -------------------------------- *)

\* ObjectIds generated in one run (habits and logs draw from the same generator)
MaxInc == 3
\* clock ticks in one run
MaxClock == 1

(* --------------------------- character codes --------------------------- *)

\* "-"
Dash == 45

\* the value of a hexadecimal digit (either letter case), -1 for any other character
HexValue(c) ==
    IF c \in 48..57 THEN c - 48
    ELSE IF c \in 97..102 THEN c - 87
    ELSE IF c \in 65..70 THEN c - 55
    ELSE -1

\* the lowercase hexadecimal digit of a nibble
HexChar(n) == IF n < 10 THEN 48 + n ELSE 87 + n

\* the decimal digit character of d \in 0..9
Digit(d) == 48 + d

\* s < t, s = t, s > t in the store's binary string order
RECURSIVE StrLeq(_, _)
StrLeq(s, t) ==
    IF s = <<>> THEN TRUE
    ELSE IF t = <<>> THEN FALSE
    ELSE IF Head(s) < Head(t) THEN TRUE
    ELSE IF Head(s) > Head(t) THEN FALSE
    ELSE StrLeq(Tail(s), Tail(t))

(* ------------------------------ ObjectId ------------------------------- *)

\* length of the hexadecimal spelling of an ObjectId (12 bytes)
OidLen == 24

InvalidId == <<-1>>

\* bson.ObjectId(id_str): the 24 nibbles of a 24-digit hexadecimal string of
\* either letter case; anything else raises InvalidId
ObjectId(id_str) ==
    IF Len(id_str) = OidLen /\ \A i \in 1..OidLen : HexValue(id_str[i]) >= 0
    THEN [i \in 1..OidLen |-> HexValue(id_str[i])]
    ELSE InvalidId

\* str(oid): lowercase hexadecimal
str(oid) == [i \in 1..OidLen |-> HexChar(oid[i])]

\* the generator's counter at process start (random in bson; one value here)
FirstInc == 10

\* the ObjectId generated at counter value inc; the timestamp and the
\* per-process random bytes are fixed to zero
NewObjectId(inc) ==
    [i \in 1..OidLen |->
        IF i = OidLen - 1 THEN (inc \div 16) % 16
        ELSE IF i = OidLen THEN inc % 16
        ELSE 0]

\* mutation of _coerce_objectid: a malformed id is passed on instead of raising
_coerce_objectid_lenient(id_str) ==
    [raised |-> FALSE, status |-> 200, detail |-> "", oid |-> ObjectId(id_str)]

\* _coerce_objectid: the parsed id, or HTTP 400
_coerce_objectid(id_str) ==
    IF ObjectId(id_str) = InvalidId
    THEN [raised |-> TRUE, status |-> 400, detail |-> "Invalid ID format", oid |-> InvalidId]
    ELSE [raised |-> FALSE, status |-> 200, detail |-> "", oid |-> ObjectId(id_str)]

(* ------------------------------- dates --------------------------------- *)

\* decimal digits of n < 100 without padding
Dec(n) == IF n < 10 THEN <<Digit(n)>> ELSE <<Digit(n \div 10), Digit(n % 10)>>

\* mutation of isoformat: month and day are not zero padded
isoformat_unpadded(d) ==
    << Digit((d.year \div 1000) % 10), Digit((d.year \div 100) % 10),
       Digit((d.year \div 10) % 10), Digit(d.year % 10), Dash >>
    \o Dec(d.month) \o <<Dash>> \o Dec(d.day)

\* date.isoformat(): YYYY-MM-DD, zero padded
isoformat(d) ==
    << Digit((d.year \div 1000) % 10), Digit((d.year \div 100) % 10),
       Digit((d.year \div 10) % 10), Digit(d.year % 10), Dash,
       Digit((d.month \div 10) % 10), Digit(d.month % 10), Dash,
       Digit((d.day \div 10) % 10), Digit(d.day % 10) >>

(* --------------------------- request inputs ---------------------------- *)

\* habit_id path parameters: the first two ids the generator hands out and
\* "zz", a string that is no ObjectId
HabitIds ==
    { str(NewObjectId(FirstInc)), str(NewObjectId(FirstInc + 1)), <<122, 122>> }

\* LogIn.day values: 2024-01-09 and 2024-01-10
Jan09 == [year |-> 2024, month |-> 1, day |-> 9]
Jan10 == [year |-> 2024, month |-> 1, day |-> 10]
Days == {Jan09, Jan10}

\* LogIn.value values (1 is the class default)
Values == {1, 5}

\* LogIn payloads: with the default value, and with any value
LogIn == [day : Days, value : {1}]
LogInValues == [day : Days, value : Values]

\* start / end query parameters: absent, empty, or a day string
Bounds == {None, Some(<<>>)} \cup { Some(isoformat(d)) : d \in Days }

\* mutation of HabitIn: the default color is lost
HabitIn_nocolor(body) ==
    [ name         |-> body.name,
      description  |-> IF "description" \in DOMAIN body THEN body.description ELSE None,
      color        |-> IF "color" \in DOMAIN body THEN body.color ELSE "",
      frequency    |-> IF "frequency" \in DOMAIN body THEN body.frequency ELSE "daily",
      days_of_week |-> IF "days_of_week" \in DOMAIN body THEN body.days_of_week ELSE None ]

\* HabitIn: the request body with the class defaults applied
HabitIn(body) ==
    [ name         |-> body.name,
      description  |-> IF "description" \in DOMAIN body THEN body.description ELSE None,
      color        |-> IF "color" \in DOMAIN body THEN body.color ELSE "#6366f1",
      frequency    |-> IF "frequency" \in DOMAIN body THEN body.frequency ELSE "daily",
      days_of_week |-> IF "days_of_week" \in DOMAIN body THEN body.days_of_week ELSE None ]

\* request bodies of POST /api/habits
HabitBodies ==
    { [name |-> "Read"],
      [name |-> "", description |-> Some("gym"), color |-> "#000000",
       frequency |-> "weekly", days_of_week |-> Some(<<0, 6>>)] }

(* -------------------------- store operations --------------------------- *)

\* filter conditions: {"f": v} and {"f": {"$gte": a, "$lte": b}}
Eq(v) == [eq |-> v]
Range(a, b) == [gte |-> a, lte |-> b]

\* whether value v satisfies condition c; ranges are over strings, in binary order
Satisfies(v, c) ==
    IF "eq" \in DOMAIN c THEN v = c.eq
    ELSE StrLeq(c.gte, v) /\ StrLeq(v, c.lte)

\* whether document d matches filter filt (a record of conditions, all required)
Matches(d, filt) == \A f \in DOMAIN filt : f \in DOMAIN d /\ Satisfies(d[f], filt[f])

\* collection.find(filt): the matching documents
find(coll, filt) == { d \in coll : Matches(d, filt) }

\* cursor.sort(key, -1): every order of the documents in which key never
\* increases; the order among equal keys is the store's choice
sort_desc(docs, key) ==
    { s \in [1..Cardinality(docs) -> docs] :
        /\ \A i, j \in 1..Cardinality(docs) : i # j => s[i] # s[j]
        /\ \A i, j \in 1..Cardinality(docs) : i < j => s[i][key] >= s[j][key] }

\* mutation of find_one: the lookup never finds a document
find_one_never(coll, filt) == {None}

\* collection.find_one(filt): None, or any one matching document
find_one(coll, filt) ==
    IF \E d \in coll : Matches(d, filt)
    THEN { Some(d) : d \in { e \in coll : Matches(e, filt) } }
    ELSE {None}

\* mutation of delete_one: nothing is deleted
delete_one_noop(coll, oid) == [coll |-> coll, deleted_count |-> 0]

\* mutation of delete_one: deleted_count is 1 whether or not a document matched
delete_one_found(coll, oid) ==
    [ coll |-> { d \in coll : d._id # oid }, deleted_count |-> 1 ]

\* mutation of delete_one: every document is deleted along with the matching one
delete_one_all(coll, oid) ==
    [ coll |-> IF \E d \in coll : d._id = oid THEN {} ELSE coll,
      deleted_count |-> Cardinality({ d \in coll : d._id = oid }) ]

\* collection.delete_one({"_id": oid}): the collection left and deleted_count
delete_one(coll, oid) ==
    [ coll |-> { d \in coll : d._id # oid },
      deleted_count |-> Cardinality({ d \in coll : d._id = oid }) ]

\* mutation of delete_many: only one matching document is deleted
delete_many_one(coll, filt) ==
    IF \E d \in coll : Matches(d, filt)
    THEN coll \ { CHOOSE d \in coll : Matches(d, filt) }
    ELSE coll

\* collection.delete_many(filt)
delete_many(coll, filt) == { d \in coll : ~Matches(d, filt) }

\* mutation of insert_one: the collection takes one log per (habit_id, day),
\* as under a unique index
insert_one_unique(coll, doc, oid) ==
    IF "day" \in DOMAIN doc /\ \E d \in coll : d.habit_id = doc.habit_id /\ d.day = doc.day
    THEN coll
    ELSE coll \cup { [f \in DOMAIN doc \cup {"_id"} |-> IF f = "_id" THEN oid ELSE doc[f]] }

\* collection.insert_one(doc): the store assigns _id
insert_one(coll, doc, oid) ==
    coll \cup { [f \in DOMAIN doc \cup {"_id"} |-> IF f = "_id" THEN oid ELSE doc[f]] }

(* ------------------------------ responses ------------------------------ *)

\* what a call record keeps of the call before it
NoPrior ==
    [op |-> "none", habit_id |-> None, arg |-> None, status |-> 0,
     body |-> [detail |-> ""], before |-> [habit |-> {}, habitlog |-> {}]]

NoCall ==
    [op |-> "none", habit_id |-> None, arg |-> None, status |-> 0,
     body |-> [detail |-> ""], ops |-> <<>>,
     before |-> [habit |-> {}, habitlog |-> {}], prior |-> NoPrior]

\* a completed call: its arguments, its response, the store operations it
\* issued, the two collections as they were when it started, and the call
\* answered just before it (none once that response has been sent)
Call(op, habit_id, arg, status, body, ops) ==
    [op |-> op, habit_id |-> habit_id, arg |-> arg, status |-> status,
     body |-> body, ops |-> ops,
     before |-> [habit |-> habit, habitlog |-> habitlog],
     prior |-> [op |-> last.op, habit_id |-> last.habit_id, arg |-> last.arg,
                status |-> last.status, body |-> last.body, before |-> last.before]]

\* a handler run as one step: no worker is part-way through a call
Record(call) == last' = call /\ UNCHANGED calls

(* ------------------------------ handlers ------------------------------- *)

\* POST /api/habits
create_habit(body) ==
    IF db = None
    THEN /\ Record(Call("create_habit", None, Some(body), 500,
                        [detail |-> "Database not configured"], <<>>))
         /\ UNCHANGED <<store, now>>
    ELSE /\ oid_inc < FirstInc + MaxInc
         /\ LET to_insert == HabitIn(body)
                inserted_id == NewObjectId(oid_inc)
                doc == [ name |-> to_insert.name,
                         description |-> to_insert.description,
                         color |-> to_insert.color,
                         frequency |-> to_insert.frequency,
                         days_of_week |-> to_insert.days_of_week,
                         created_at |-> now,
                         updated_at |-> now ]
            IN /\ habit' = insert_one(habit, doc, inserted_id)
               /\ oid_inc' = oid_inc + 1
               /\ Record(Call("create_habit", None, Some(body), 200,
                              [ id |-> str(inserted_id),
                                name |-> to_insert.name,
                                description |-> to_insert.description,
                                color |-> to_insert.color,
                                frequency |-> to_insert.frequency,
                                days_of_week |-> to_insert.days_of_week ],
                              <<"habit.insert_one">>))
         /\ UNCHANGED <<db, habitlog, now>>

\* POST /api/habits/{habit_id}/logs
toggle_log(habit_id, payload) ==
    IF db = None
    THEN /\ Record(Call("toggle_log", Some(habit_id), Some(payload), 500,
                        [detail |-> "Database not configured"], <<>>))
         /\ UNCHANGED <<store, now>>
    ELSE LET day_str == isoformat(payload.day) IN
         \E existing \in find_one(habitlog, [habit_id |-> Eq(habit_id), day |-> Eq(day_str)]) :
            IF existing # None
            THEN /\ habitlog' = delete_one(habitlog, existing[1]._id).coll
                 /\ Record(Call("toggle_log", Some(habit_id), Some(payload), 200,
                                [checked |-> FALSE],
                                <<"habitlog.find_one", "habitlog.delete_one">>))
                 /\ UNCHANGED <<db, habit, oid_inc, now>>
            ELSE /\ oid_inc < FirstInc + MaxInc
                 /\ habitlog' = insert_one(habitlog,
                                   [ habit_id |-> habit_id,
                                     day |-> day_str,
                                     value |-> payload.value,
                                     created_at |-> now,
                                     updated_at |-> now ],
                                   NewObjectId(oid_inc))
                 /\ oid_inc' = oid_inc + 1
                 /\ Record(Call("toggle_log", Some(habit_id), Some(payload), 200,
                                [checked |-> TRUE],
                                <<"habitlog.find_one", "habitlog.insert_one">>))
                 /\ UNCHANGED <<db, habit, now>>

\* HabitOut(**d) of a stored habit: id from _id, the timestamps dropped
HabitOut(d) ==
    [ id |-> str(d._id), name |-> d.name, description |-> d.description,
      color |-> d.color, frequency |-> d.frequency, days_of_week |-> d.days_of_week ]

\* GET /api/habits
list_habits ==
    IF db = None
    THEN /\ Record(Call("list_habits", None, None, 500,
                        [detail |-> "Database not configured"], <<>>))
         /\ UNCHANGED <<store, now>>
    ELSE /\ \E docs \in sort_desc(find(habit, <<>>), "created_at") :
              Record(Call("list_habits", None, None, 200,
                          [results |-> [i \in DOMAIN docs |-> HabitOut(docs[i])]],
                          <<"habit.find">>))
         /\ UNCHANGED <<store, now>>

\* mutation of delete_habit: the id is parsed before the store handle is checked
delete_habit_coerce_first(habit_id) ==
    LET coerced == _coerce_objectid(habit_id) IN
    IF coerced.raised
    THEN /\ Record(Call("delete_habit", Some(habit_id), None, coerced.status,
                        [detail |-> coerced.detail], <<>>))
         /\ UNCHANGED <<store, now>>
    ELSE IF db = None
    THEN /\ Record(Call("delete_habit", Some(habit_id), None, 500,
                        [detail |-> "Database not configured"], <<>>))
         /\ UNCHANGED <<store, now>>
    ELSE LET res == delete_one(habit, coerced.oid) IN
         IF res.deleted_count = 0
         THEN /\ Record(Call("delete_habit", Some(habit_id), None, 404,
                             [detail |-> "Habit not found"], <<"habit.delete_one">>))
              /\ habit' = res.coll
              /\ UNCHANGED <<db, habitlog, oid_inc, now>>
         ELSE /\ habit' = res.coll
              /\ habitlog' = delete_many(habitlog, [habit_id |-> Eq(habit_id)])
              /\ Record(Call("delete_habit", Some(habit_id), None, 200,
                             [ok |-> TRUE],
                             <<"habit.delete_one", "habitlog.delete_many">>))
              /\ UNCHANGED <<db, oid_inc, now>>

\* DELETE /api/habits/{habit_id}
delete_habit(habit_id) ==
    IF db = None
    THEN /\ Record(Call("delete_habit", Some(habit_id), None, 500,
                        [detail |-> "Database not configured"], <<>>))
         /\ UNCHANGED <<store, now>>
    ELSE LET coerced == _coerce_objectid(habit_id) IN
         IF coerced.raised
         THEN /\ Record(Call("delete_habit", Some(habit_id), None, coerced.status,
                             [detail |-> coerced.detail], <<>>))
              /\ UNCHANGED <<store, now>>
         ELSE LET res == delete_one(habit, coerced.oid) IN
              IF res.deleted_count = 0
              THEN /\ Record(Call("delete_habit", Some(habit_id), None, 404,
                                  [detail |-> "Habit not found"], <<"habit.delete_one">>))
                   /\ habit' = res.coll
                   /\ UNCHANGED <<db, habitlog, oid_inc, now>>
              ELSE /\ habit' = res.coll
                   /\ habitlog' = delete_many(habitlog, [habit_id |-> Eq(habit_id)])
                   /\ Record(Call("delete_habit", Some(habit_id), None, 200,
                                  [ok |-> TRUE],
                                  <<"habit.delete_one", "habitlog.delete_many">>))
                   /\ UNCHANGED <<db, oid_inc, now>>

\* Python truthiness of an Optional[str]: None and "" are false
Truthy(opt) == opt # None /\ opt[1] # <<>>

\* a habitlog document as get_logs returns it: id from _id
LogOut(l) ==
    [ id |-> str(l._id), habit_id |-> l.habit_id, day |-> l.day, value |-> l.value,
      created_at |-> l.created_at, updated_at |-> l.updated_at ]

\* the filter get_logs builds
logs_filter(habit_id, start, end) ==
    IF Truthy(start) /\ Truthy(end)
    THEN [habit_id |-> Eq(habit_id), day |-> Range(start[1], end[1])]
    ELSE [habit_id |-> Eq(habit_id)]

\* GET /api/habits/{habit_id}/logs
get_logs(habit_id, start, end) ==
    IF db = None
    THEN /\ Record(Call("get_logs", Some(habit_id), Some([start |-> start, end |-> end]), 500,
                        [detail |-> "Database not configured"], <<>>))
         /\ UNCHANGED <<store, now>>
    ELSE LET logs == find(habitlog, logs_filter(habit_id, start, end)) IN
         /\ Record(Call("get_logs", Some(habit_id), Some([start |-> start, end |-> end]), 200,
                        [logs |-> { LogOut(l) : l \in logs }], <<"habitlog.find">>))
         /\ UNCHANGED <<store, now>>

\* the response of the latest call has been sent; the server is idle again
respond ==
    /\ last # NoCall
    /\ last' = NoCall
    /\ UNCHANGED <<store, now, calls>>

\* the clock advances (Next lets it advance between calls: time that passes
\* while a response is pending changes nothing that time passing right after
\* it would not)
Tick ==
    /\ now < MaxClock
    /\ now' = now + 1
    /\ UNCHANGED <<store, last, calls>>

(* -------------------- handlers, one store operation a step ------------- *)

\* the request workers: the server runs each call on a thread of its pool, so
\* two calls can be part-way through at once
Workers == {1, 2}

\* the uncaught exception of a failed store operation, as the server answers it
StoreError == [status |-> 500, body |-> [detail |-> "Internal Server Error"]]

\* a worker that runs no call.  Of a call, a worker keeps the next store
\* operation (pc), the request (op, habit_id, arg), the locals of the handler
\* (oid, existing), the response (status, body) and, to observe the call: the
\* store operations issued (ops), the collections when the request arrived
\* (before), whether it ran alone, and how many ids the generator had handed
\* out when toggle_log looked the pair up (looked) and when it inserted
\* (inserted)
NoStep ==
    [pc |-> "idle", op |-> "none", habit_id |-> None, arg |-> None,
     existing |-> None, oid |-> None, status |-> 0, body |-> [detail |-> ""],
     ops |-> <<>>, alone |-> TRUE, before |-> [habit |-> {}, habitlog |-> {}],
     looked |-> None, inserted |-> None]

\* worker w takes up call c.  c runs alone if no other call is part-way
\* through; a call that is part-way through, or whose response is not yet
\* sent, is from now on not alone
Enter(w, c) ==
    calls' = [v \in Workers |->
        IF v = w
        THEN [c EXCEPT !.alone = \A u \in Workers \ {w} : calls[u].pc \in {"idle", "done"},
                       !.before = [habit |-> habit, habitlog |-> habitlog]]
        ELSE IF calls[v].pc = "idle" THEN calls[v]
        ELSE [calls[v] EXCEPT !.alone = FALSE]]

\* worker w's call moves on to c
Step(w, c) == calls' = [calls EXCEPT ![w] = c]

\* call c after store operation name raised: the exception ends the call
Failed(c, name) ==
    [c EXCEPT !.pc = "done", !.status = StoreError.status, !.body = StoreError.body,
              !.ops = Append(@, name)]

\* call c after its last store operation name: the handler returns body
Answered(c, name, status, body) ==
    [c EXCEPT !.pc = "done", !.status = status, !.body = body, !.ops = Append(@, name)]

\* a request arrives at idle worker w: 500 if the store handle is absent,
\* otherwise the call starts as record `configured` says
Arrive(w, op, habit_id, arg, configured) ==
    /\ calls[w].pc = "idle"
    /\ Enter(w, IF db = None
                THEN [NoStep EXCEPT !.pc = "done", !.op = op, !.habit_id = habit_id,
                                    !.arg = arg, !.status = 500,
                                    !.body = [detail |-> "Database not configured"]]
                ELSE [NoStep EXCEPT !.pc = configured.pc, !.op = op, !.habit_id = habit_id,
                                    !.arg = arg, !.oid = configured.oid,
                                    !.status = configured.status,
                                    !.body = configured.body])
    /\ UNCHANGED <<store, now, last>>

\* a call that goes on to store operation pc
GoesOn(pc) == [pc |-> pc, oid |-> None, status |-> 0, body |-> [detail |-> ""]]

\* POST /api/habits: the request
create_habit_enter(w, body) ==
    Arrive(w, "create_habit", None, Some(body), GoesOn("insert_one"))

\* POST /api/habits: insert_one, and the response
create_habit_insert_one(w, ok) ==
    /\ calls[w].op = "create_habit" /\ calls[w].pc = "insert_one"
    /\ IF ok
       THEN /\ oid_inc < FirstInc + MaxInc
            /\ LET to_insert == HabitIn(calls[w].arg[1])
                   inserted_id == NewObjectId(oid_inc)
                   doc == [ name |-> to_insert.name,
                            description |-> to_insert.description,
                            color |-> to_insert.color,
                            frequency |-> to_insert.frequency,
                            days_of_week |-> to_insert.days_of_week,
                            created_at |-> now,
                            updated_at |-> now ]
               IN /\ habit' = insert_one(habit, doc, inserted_id)
                  /\ oid_inc' = oid_inc + 1
                  /\ Step(w, Answered(calls[w], "habit.insert_one", 200,
                                      [ id |-> str(inserted_id),
                                        name |-> to_insert.name,
                                        description |-> to_insert.description,
                                        color |-> to_insert.color,
                                        frequency |-> to_insert.frequency,
                                        days_of_week |-> to_insert.days_of_week ]))
       ELSE /\ Step(w, Failed(calls[w], "habit.insert_one"))
            /\ UNCHANGED <<habit, oid_inc>>
    /\ UNCHANGED <<db, habitlog, now, last>>

\* GET /api/habits: the request
list_habits_enter(w) ==
    Arrive(w, "list_habits", None, None, GoesOn("find"))

\* GET /api/habits: find().sort(), and the response
list_habits_find(w, ok) ==
    /\ calls[w].op = "list_habits" /\ calls[w].pc = "find"
    /\ IF ok
       THEN \E docs \in sort_desc(find(habit, <<>>), "created_at") :
               Step(w, Answered(calls[w], "habit.find", 200,
                                [results |-> [i \in DOMAIN docs |-> HabitOut(docs[i])]]))
       ELSE Step(w, Failed(calls[w], "habit.find"))
    /\ UNCHANGED <<store, now, last>>

\* DELETE /api/habits/{habit_id}: the request, and the parse of the id
delete_habit_enter(w, habit_id) ==
    LET coerced == _coerce_objectid(habit_id) IN
    Arrive(w, "delete_habit", Some(habit_id), None,
           IF coerced.raised
           THEN [pc |-> "done", oid |-> None, status |-> coerced.status,
                 body |-> [detail |-> coerced.detail]]
           ELSE [pc |-> "delete_one", oid |-> Some(coerced.oid), status |-> 0,
                 body |-> [detail |-> ""]])

\* DELETE /api/habits/{habit_id}: delete_one on habit, and the 404
delete_habit_delete_one(w, ok) ==
    /\ calls[w].op = "delete_habit" /\ calls[w].pc = "delete_one"
    /\ IF ok
       THEN LET res == delete_one(habit, calls[w].oid[1]) IN
            /\ habit' = res.coll
            /\ IF res.deleted_count = 0
               THEN Step(w, Answered(calls[w], "habit.delete_one", 404,
                                     [detail |-> "Habit not found"]))
               ELSE Step(w, [calls[w] EXCEPT !.pc = "delete_many",
                                             !.ops = Append(@, "habit.delete_one")])
       ELSE /\ Step(w, Failed(calls[w], "habit.delete_one"))
            /\ UNCHANGED habit
    /\ UNCHANGED <<db, habitlog, oid_inc, now, last>>

\* mutation of delete_habit_delete_many: a failed log deletion is compensated
\* by putting the habit back
delete_habit_delete_many_restoring(w, ok) ==
    /\ calls[w].op = "delete_habit" /\ calls[w].pc = "delete_many"
    /\ IF ok
       THEN /\ habitlog' = delete_many(habitlog, [habit_id |-> Eq(calls[w].habit_id[1])])
            /\ Step(w, Answered(calls[w], "habitlog.delete_many", 200, [ok |-> TRUE]))
            /\ UNCHANGED habit
       ELSE /\ Step(w, Failed(calls[w], "habitlog.delete_many"))
            /\ habit' = habit \cup { d \in calls[w].before.habit : d._id = calls[w].oid[1] }
            /\ UNCHANGED habitlog
    /\ UNCHANGED <<db, oid_inc, now, last>>

\* DELETE /api/habits/{habit_id}: delete_many on habitlog, and the response
delete_habit_delete_many(w, ok) ==
    /\ calls[w].op = "delete_habit" /\ calls[w].pc = "delete_many"
    /\ IF ok
       THEN /\ habitlog' = delete_many(habitlog, [habit_id |-> Eq(calls[w].habit_id[1])])
            /\ Step(w, Answered(calls[w], "habitlog.delete_many", 200, [ok |-> TRUE]))
       ELSE /\ Step(w, Failed(calls[w], "habitlog.delete_many"))
            /\ UNCHANGED habitlog
    /\ UNCHANGED <<db, habit, oid_inc, now, last>>

\* POST /api/habits/{habit_id}/logs: the request
toggle_log_enter(w, habit_id, payload) ==
    Arrive(w, "toggle_log", Some(habit_id), Some(payload), GoesOn("find_one"))

\* mutation of toggle_log_find_one: a failed lookup is tried once more
toggle_log_find_one_retry(w, ok) ==
    /\ calls[w].op = "toggle_log" /\ calls[w].pc = "find_one"
    /\ IF ok
       THEN LET day_str == isoformat(calls[w].arg[1].day) IN
            \E existing \in find_one(habitlog, [habit_id |-> Eq(calls[w].habit_id[1]),
                                                day |-> Eq(day_str)]) :
               Step(w, [calls[w] EXCEPT
                           !.pc = IF existing # None THEN "delete_one" ELSE "insert_one",
                           !.existing = existing,
                           !.looked = Some(oid_inc),
                           !.ops = Append(@, "habitlog.find_one")])
       ELSE IF calls[w].ops = <<>>
            THEN Step(w, [calls[w] EXCEPT !.ops = Append(@, "habitlog.find_one")])
            ELSE Step(w, Failed(calls[w], "habitlog.find_one"))
    /\ UNCHANGED <<store, now, last>>

\* mutation of toggle_log_find_one: the habit is looked up first, and the call
\* answers 404 when there is none
toggle_log_find_one_checked(w, ok) ==
    /\ calls[w].op = "toggle_log" /\ calls[w].pc = "find_one"
    /\ IF ~ok
       THEN Step(w, Failed(calls[w], "habitlog.find_one"))
       ELSE IF \A d \in habit : str(d._id) # calls[w].habit_id[1]
       THEN Step(w, Answered(calls[w], "habit.find_one", 404, [detail |-> "Habit not found"]))
       ELSE LET day_str == isoformat(calls[w].arg[1].day) IN
            \E existing \in find_one(habitlog, [habit_id |-> Eq(calls[w].habit_id[1]),
                                                day |-> Eq(day_str)]) :
               Step(w, [calls[w] EXCEPT
                           !.pc = IF existing # None THEN "delete_one" ELSE "insert_one",
                           !.existing = existing,
                           !.looked = Some(oid_inc),
                           !.ops = Append(@, "habitlog.find_one")])
    /\ UNCHANGED <<store, now, last>>

\* POST /api/habits/{habit_id}/logs: find_one
toggle_log_find_one(w, ok) ==
    /\ calls[w].op = "toggle_log" /\ calls[w].pc = "find_one"
    /\ IF ok
       THEN LET day_str == isoformat(calls[w].arg[1].day) IN
            \E existing \in find_one(habitlog, [habit_id |-> Eq(calls[w].habit_id[1]),
                                                day |-> Eq(day_str)]) :
               Step(w, [calls[w] EXCEPT
                           !.pc = IF existing # None THEN "delete_one" ELSE "insert_one",
                           !.existing = existing,
                           !.looked = Some(oid_inc),
                           !.ops = Append(@, "habitlog.find_one")])
       ELSE Step(w, Failed(calls[w], "habitlog.find_one"))
    /\ UNCHANGED <<store, now, last>>

\* mutation of toggle_log_delete_one: the response follows deleted_count
toggle_log_delete_one_counted(w, ok) ==
    /\ calls[w].op = "toggle_log" /\ calls[w].pc = "delete_one"
    /\ IF ok
       THEN LET res == delete_one(habitlog, calls[w].existing[1]._id) IN
            /\ habitlog' = res.coll
            /\ Step(w, Answered(calls[w], "habitlog.delete_one", 200,
                                [checked |-> res.deleted_count = 0]))
       ELSE /\ Step(w, Failed(calls[w], "habitlog.delete_one"))
            /\ UNCHANGED habitlog
    /\ UNCHANGED <<db, habit, oid_inc, now, last>>

\* POST /api/habits/{habit_id}/logs: a log was found; delete_one by its _id
toggle_log_delete_one(w, ok) ==
    /\ calls[w].op = "toggle_log" /\ calls[w].pc = "delete_one"
    /\ IF ok
       THEN /\ habitlog' = delete_one(habitlog, calls[w].existing[1]._id).coll
            /\ Step(w, Answered(calls[w], "habitlog.delete_one", 200, [checked |-> FALSE]))
       ELSE /\ Step(w, Failed(calls[w], "habitlog.delete_one"))
            /\ UNCHANGED habitlog
    /\ UNCHANGED <<db, habit, oid_inc, now, last>>

\* POST /api/habits/{habit_id}/logs: no log was found; insert_one
toggle_log_insert_one(w, ok) ==
    /\ calls[w].op = "toggle_log" /\ calls[w].pc = "insert_one"
    /\ IF ok
       THEN /\ oid_inc < FirstInc + MaxInc
            /\ habitlog' = insert_one(habitlog,
                              [ habit_id |-> calls[w].habit_id[1],
                                day |-> isoformat(calls[w].arg[1].day),
                                value |-> calls[w].arg[1].value,
                                created_at |-> now,
                                updated_at |-> now ],
                              NewObjectId(oid_inc))
            /\ oid_inc' = oid_inc + 1
            /\ Step(w, Answered([calls[w] EXCEPT !.inserted = Some(oid_inc)],
                                "habitlog.insert_one", 200, [checked |-> TRUE]))
       ELSE /\ Step(w, Failed(calls[w], "habitlog.insert_one"))
            /\ UNCHANGED <<habitlog, oid_inc>>
    /\ UNCHANGED <<db, habit, now, last>>

\* GET /api/habits/{habit_id}/logs: the request
get_logs_enter(w, habit_id, start, end) ==
    Arrive(w, "get_logs", Some(habit_id), Some([start |-> start, end |-> end]),
           GoesOn("find"))

\* GET /api/habits/{habit_id}/logs: find, and the response
get_logs_find(w, ok) ==
    /\ calls[w].op = "get_logs" /\ calls[w].pc = "find"
    /\ IF ok
       THEN LET logs == find(habitlog, logs_filter(calls[w].habit_id[1],
                                                   calls[w].arg[1].start,
                                                   calls[w].arg[1].end)) IN
            Step(w, Answered(calls[w], "habitlog.find", 200,
                             [logs |-> { LogOut(l) : l \in logs }]))
       ELSE Step(w, Failed(calls[w], "habitlog.find"))
    /\ UNCHANGED <<store, now, last>>

\* worker w has sent the response of its call and is idle again
finish(w) ==
    /\ calls[w].pc = "done"
    /\ Step(w, NoStep)
    /\ UNCHANGED <<store, now, last>>

(* ---------------------------- specification ---------------------------- *)

Init ==
    /\ db \in {None, Some("habits")}
    /\ habit = {}
    /\ habitlog = {}
    /\ oid_inc = FirstInc
    /\ now = 0
    /\ last = NoCall
    /\ calls = [w \in Workers |-> NoStep]

Idle == last = NoCall

\* the whole service: one call at a time, each answered before the next starts;
\* get_logs is called with no bound, one bound or both (SpecLogs has every
\* combination of Bounds)
Next ==
    \/ Idle /\ \E body \in HabitBodies : create_habit(body)
    \/ Idle /\ list_habits
    \/ Idle /\ \E habit_id \in HabitIds : delete_habit(habit_id)
    \/ Idle /\ \E habit_id \in HabitIds, payload \in LogIn : toggle_log(habit_id, payload)
    \/ Idle /\ \E habit_id \in HabitIds,
                  start \in {None, Some(isoformat(Jan09))},
                  end \in {None, Some(isoformat(Jan10))} :
            get_logs(habit_id, start, end)
    \/ respond
    \/ Idle /\ Tick

Spec == Init /\ [][Next]_vars

\* the two log endpoints, one call at a time, get_logs with every combination
\* of Bounds
NextLogs ==
    \/ Idle /\ \E habit_id \in HabitIds, payload \in LogIn : toggle_log(habit_id, payload)
    \/ Idle /\ \E habit_id \in HabitIds, start \in Bounds, end \in Bounds :
            get_logs(habit_id, start, end)
    \/ respond
    \/ Idle /\ Tick

SpecLogs == Init /\ [][NextLogs]_vars

\* toggle calls back to back, with any value: `last` is the call before the
\* next one, and last.before the habitlog collection that call started from.
\* toggle_log reads the clock only to stamp the log it inserts, so the clock
\* stands still here; Spec has toggles at different times
NextToggle ==
    \E habit_id \in HabitIds, payload \in LogInValues : toggle_log(habit_id, payload)

SpecToggle == Init /\ [][NextToggle]_vars

\* id_str with its letters a-f in upper case: ObjectId reads either case
Upper(id_str) ==
    [i \in 1..Len(id_str) |-> IF id_str[i] \in 97..102 THEN id_str[i] - 32 ELSE id_str[i]]

\* the ids of HabitIds in both spellings
CaseIds == HabitIds \cup { Upper(h) : h \in HabitIds }

\* habits created, toggled under the ids create_habit returns, and deleted
\* under either spelling of an id, one call at a time
NextCase ==
    \/ Idle /\ \E body \in HabitBodies : create_habit(body)
    \/ Idle /\ \E habit_id \in HabitIds, payload \in LogIn : toggle_log(habit_id, payload)
    \/ Idle /\ \E habit_id \in CaseIds : delete_habit(habit_id)
    \/ respond

SpecCase == Init /\ [][NextCase]_vars

\* whether a store operation succeeds or raises
Outcomes == {TRUE, FALSE}

\* one worker, every handler, store operations that may fail; the clock, read
\* only to stamp inserted documents, stands still
NextFail ==
    \/ \E body \in HabitBodies : create_habit_enter(1, body)
    \/ \E ok \in Outcomes : create_habit_insert_one(1, ok)
    \/ list_habits_enter(1)
    \/ \E ok \in Outcomes : list_habits_find(1, ok)
    \/ \E habit_id \in HabitIds : delete_habit_enter(1, habit_id)
    \/ \E ok \in Outcomes : delete_habit_delete_one(1, ok)
    \/ \E ok \in Outcomes : delete_habit_delete_many(1, ok)
    \/ \E habit_id \in HabitIds, payload \in LogIn : toggle_log_enter(1, habit_id, payload)
    \/ \E ok \in Outcomes : toggle_log_find_one(1, ok)
    \/ \E ok \in Outcomes : toggle_log_delete_one(1, ok)
    \/ \E ok \in Outcomes : toggle_log_insert_one(1, ok)
    \/ \E habit_id \in HabitIds,
          start \in {None, Some(isoformat(Jan09))},
          end \in {None, Some(isoformat(Jan10))} :
            get_logs_enter(1, habit_id, start, end)
    \/ \E ok \in Outcomes : get_logs_find(1, ok)
    \/ finish(1)

SpecFail == Init /\ [][NextFail]_vars

\* two workers, the handlers that write, store operations that succeed; every
\* call is about the first id the generator hands out, on one day
NextRace ==
    \/ \E w \in Workers : create_habit_enter(w, [name |-> "Read"])
    \/ \E w \in Workers : create_habit_insert_one(w, TRUE)
    \/ \E w \in Workers : delete_habit_enter(w, str(NewObjectId(FirstInc)))
    \/ \E w \in Workers : delete_habit_delete_one(w, TRUE)
    \/ \E w \in Workers : delete_habit_delete_many(w, TRUE)
    \/ \E w \in Workers :
            toggle_log_enter(w, str(NewObjectId(FirstInc)), [day |-> Jan09, value |-> 1])
    \/ \E w \in Workers : toggle_log_find_one(w, TRUE)
    \/ \E w \in Workers : toggle_log_delete_one(w, TRUE)
    \/ \E w \in Workers : toggle_log_insert_one(w, TRUE)
    \/ \E w \in Workers : finish(w)

SpecRace == Init /\ [][NextRace]_vars

(* ------------------------- properties: helpers ------------------------- *)

\* the texts "2024-01-09" and "2024-01-10" of the two days of Days, written out
DayText(d) ==
    IF d.day = 9 THEN <<50, 48, 50, 52, 45, 48, 49, 45, 48, 57>>
    ELSE <<50, 48, 50, 52, 45, 48, 49, 45, 49, 48>>

\* the logs of collection coll for the pair (h, d)
PairLogs(coll, h, d) == { l \in coll : l.habit_id = h /\ l.day = d }

\* the pairs that have a log in coll
Pairs(coll) == { <<l.habit_id, l.day>> : l \in coll }

\* what a client can see of the logs apart from store-assigned ids and timestamps
Content(coll) == { [habit_id |-> l.habit_id, day |-> l.day, value |-> l.value] : l \in coll }

Ids(coll) == { l._id : l \in coll }

\* `last` and the call before it are two answered toggles of the same pair
TwoToggles ==
    /\ last.op = "toggle_log" /\ last.status = 200
    /\ last.prior.op = "toggle_log" /\ last.prior.status = 200
    /\ last.habit_id = last.prior.habit_id
    /\ last.arg[1].day = last.prior.arg[1].day

(* ------------------------------ properties ----------------------------- *)

\* C1 as stated: two consecutive toggle_log calls for one pair return the
\* habitlog collection to its state before the first call (compared here on
\* habit_id, day and value only, leaving store-assigned ids and timestamps
\* aside), and the responses are true then false if no log existed, false
\* then true if one did.
C1_RoundTripAsStated ==
    TwoToggles =>
        LET h == last.habit_id[1]
            d == DayText(last.arg[1].day)
            first == last.prior.before.habitlog
        IN /\ Content(habitlog) = Content(first)
           /\ IF PairLogs(first, h, d) = {}
              THEN last.prior.body = [checked |-> TRUE] /\ last.body = [checked |-> FALSE]
              ELSE last.prior.body = [checked |-> FALSE] /\ last.body = [checked |-> TRUE]

\* C1 amended: from a store state with at most one log for the pair, two
\* consecutive answered toggle_log calls for that pair leave the logs of every
\* other pair untouched and the set of pairs that have a log as it was.  If no
\* log for the pair existed, the collection is exactly what it was and the
\* responses are true then false.  If one existed, the responses are false
\* then true and the pair has exactly one log again, which is a new record (an
\* id the collection did not hold) carrying the second request's value.
C1_RoundTrip ==
    LET h == last.habit_id[1]
        d == DayText(last.arg[1].day)
        first == last.prior.before.habitlog
    IN (TwoToggles /\ Cardinality(PairLogs(first, h, d)) <= 1) =>
           /\ habitlog \ PairLogs(habitlog, h, d) = first \ PairLogs(first, h, d)
           /\ Pairs(habitlog) = Pairs(first)
           /\ PairLogs(first, h, d) = {} =>
                 /\ habitlog = first
                 /\ last.prior.body = [checked |-> TRUE]
                 /\ last.body = [checked |-> FALSE]
           /\ PairLogs(first, h, d) # {} =>
                 /\ last.prior.body = [checked |-> FALSE]
                 /\ last.body = [checked |-> TRUE]
                 /\ Cardinality(PairLogs(habitlog, h, d)) = 1
                 /\ \A l \in PairLogs(habitlog, h, d) :
                        l.value = last.arg[1].value /\ l._id \notin Ids(first)

\* C1 witness: a pair holding a log of value 5 was toggled off and then on
\* again with value 1, while another pair kept its log
C1_Witness ==
    /\ TwoToggles
    /\ last.body = [checked |-> TRUE]
    /\ last.arg[1].value = 1
    /\ \E l \in last.prior.before.habitlog :
          l.habit_id = last.habit_id[1] /\ l.day = DayText(last.arg[1].day) /\ l.value = 5
    /\ \E l \in habitlog : l.habit_id # last.habit_id[1]

\* C2: after any sequence of toggle_log calls run one after the other from an
\* empty habitlog collection, no (habit_id, day) pair has more than one log.
C2_AtMostOnePerDay ==
    \A l1, l2 \in habitlog :
        (l1.habit_id = l2.habit_id /\ l1.day = l2.day) => l1 = l2

\* C2 witness: a pair was toggled on, off and on again (its only log carries
\* the third id generated)
C2_Witness ==
    /\ last.op = "toggle_log" /\ last.body = [checked |-> TRUE]
    /\ \E l \in habitlog : habitlog = {l} /\ l._id = NewObjectId(FirstInc + 2)
    /\ last.prior.op = "toggle_log" /\ last.prior.body = [checked |-> FALSE]
    /\ last.prior.habit_id = last.habit_id
    /\ last.prior.arg[1].day = last.arg[1].day

\* C4: a toggle_log(habit_id, day, value) call on a configured store answers
\* 200 after a lookup and one write.  If no log for exactly (habit_id, day)
\* existed it adds exactly one log, with that habit_id, day and value, and
\* answers checked true; otherwise it removes exactly one log, one of that
\* pair, adds nothing whatever the request's value, and answers checked false.
C4_ToggleBranches ==
    (last.op = "toggle_log" /\ db # None) =>
        LET h == last.habit_id[1]
            d == DayText(last.arg[1].day)
            before == last.before.habitlog
        IN /\ last.status = 200
           /\ IF PairLogs(before, h, d) = {}
              THEN /\ last.body = [checked |-> TRUE]
                   /\ last.ops = <<"habitlog.find_one", "habitlog.insert_one">>
                   /\ before \subseteq habitlog
                   /\ Cardinality(habitlog \ before) = 1
                   /\ \A l \in habitlog \ before :
                          /\ l.habit_id = h /\ l.day = d /\ l.value = last.arg[1].value
                          /\ l._id \notin Ids(before)
              ELSE /\ last.body = [checked |-> FALSE]
                   /\ last.ops = <<"habitlog.find_one", "habitlog.delete_one">>
                   /\ habitlog \subseteq before
                   /\ Cardinality(before \ habitlog) = 1
                   /\ before \ habitlog \subseteq PairLogs(before, h, d)

\* C4 witness: a toggle removed a log whose value differs from the request's
\* value, while another log stayed
C4_Witness ==
    /\ last.op = "toggle_log" /\ last.body = [checked |-> FALSE]
    /\ \E l \in last.before.habitlog \ habitlog : l.value # last.arg[1].value
    /\ habitlog # {}

\* whether s is spelled as an ObjectId: 24 hexadecimal digits
WellFormedId(s) ==
    /\ Len(s) = 24
    /\ \A i \in 1..Len(s) : s[i] \in (48..57) \cup (97..102) \cup (65..70)

\* C3: when delete_habit(H) has answered 200, no stored log has habit_id H,
\* the query get_logs builds for H under any bounds selects nothing, and every
\* log with another habit_id is still stored, unchanged.
C3_Cascade ==
    (last.op = "delete_habit" /\ last.status = 200) =>
        LET H == last.habit_id[1] IN
        /\ \A l \in habitlog : l.habit_id # H
        /\ \A start \in Bounds, end \in Bounds :
              find(habitlog, logs_filter(H, start, end)) = {}
        /\ habitlog = { l \in last.before.habitlog : l.habit_id # H }

\* C3 witness: a successful delete_habit(H) that found two logs of H
C3_Witness ==
    /\ last.op = "delete_habit" /\ last.status = 200
    /\ Cardinality({ l \in last.before.habitlog : l.habit_id = last.habit_id[1] }) >= 2

\* C5: on a configured store, delete_habit with a well-formed id answers 404
\* exactly when no habit has that id, and then both collections are as they
\* were, the logs whose habit_id is that id included.
C5_NotFoundDelete ==
    (last.op = "delete_habit" /\ db # None /\ WellFormedId(last.habit_id[1])) =>
        LET H == last.habit_id[1] IN
        /\ last.status = 404 <=> (\A d \in last.before.habit : str(d._id) # H)
        /\ last.status = 404 =>
              /\ last.body = [detail |-> "Habit not found"]
              /\ habit = last.before.habit
              /\ habitlog = last.before.habitlog

\* C5 witness: a 404 while another habit and a log under the requested id exist
C5_Witness ==
    /\ last.op = "delete_habit" /\ last.status = 404
    /\ habit # {}
    /\ \E l \in habitlog : l.habit_id = last.habit_id[1]

\* C6: on a configured store, delete_habit with an id that is not well formed
\* answers 400 without issuing a store operation; no habit or log is deleted.
C6_MalformedDelete ==
    (last.op = "delete_habit" /\ db # None /\ ~WellFormedId(last.habit_id[1])) =>
        /\ last.status = 400
        /\ last.body = [detail |-> "Invalid ID format"]
        /\ last.ops = <<>>
        /\ habit = last.before.habit
        /\ habitlog = last.before.habitlog

\* C6 witness: a 400 while a habit and a log under the malformed id exist
C6_Witness ==
    /\ last.op = "delete_habit" /\ last.status = 400
    /\ habit # {}
    /\ \E l \in habitlog : l.habit_id = last.habit_id[1]

\* C7 as stated: get_logs(H, start, end) returns exactly the logs of H whose
\* day lies in [start, end] when both bounds are supplied, every log of H when
\* one is missing, and changes no stored record.
C7_LogQuery ==
    (last.op = "get_logs" /\ last.status = 200) =>
        LET H == last.habit_id[1]
            start == last.arg[1].start
            end == last.arg[1].end
            expected ==
                { l \in habitlog :
                    /\ l.habit_id = H
                    /\ (start # None /\ end # None) =>
                          (StrLeq(start[1], l.day) /\ StrLeq(l.day, end[1])) }
        IN /\ last.body.logs = { LogOut(l) : l \in expected }
           /\ habit = last.before.habit
           /\ habitlog = last.before.habitlog

\* the habit with id string a was created after the one with id string b: the
\* generator hands out ids in increasing order
CreatedAfter(a, b) == ~StrLeq(a, b)

\* C8 as stated: list_habits returns every stored habit exactly once, the most
\* recently created first (an empty sequence when there is none).
C8_NewestFirst ==
    (last.op = "list_habits" /\ last.status = 200) =>
        LET results == last.body.results IN
        /\ Len(results) = Cardinality(habit)
        /\ { results[i].id : i \in 1..Len(results) } = { str(d._id) : d \in habit }
        /\ \A i, j \in 1..Len(results) : i < j => CreatedAfter(results[i].id, results[j].id)

\* C9: while the store handle is absent every call answers 500, whatever its
\* input, and issues no store operation.
C9_Unconfigured ==
    (db = None /\ last # NoCall) =>
        /\ last.status = 500
        /\ last.body = [detail |-> "Database not configured"]
        /\ last.ops = <<>>
        /\ habit = last.before.habit
        /\ habitlog = last.before.habitlog

\* C9 witness: delete_habit with a malformed id on an unconfigured store
C9_Witness ==
    /\ db = None
    /\ last.op = "delete_habit"
    /\ ~WellFormedId(last.habit_id[1])

\* C10: a successful create_habit adds exactly one habit, whose fields are the
\* payload's with the defaults applied, under an id that no earlier document
\* was given; it returns those fields and that id and leaves every other habit
\* and every log as it was.  No call changes a stored habit: after any call,
\* each stored habit is one that was stored before it, unchanged, or the one
\* just created.
C10_Create ==
    /\ (last.op = "create_habit" /\ last.status = 200) =>
          LET body == last.arg[1]
              out == last.body
          IN /\ out.name = body.name
             /\ out.description =
                    (IF "description" \in DOMAIN body THEN body.description ELSE None)
             /\ out.color = (IF "color" \in DOMAIN body THEN body.color ELSE "#6366f1")
             /\ out.frequency =
                    (IF "frequency" \in DOMAIN body THEN body.frequency ELSE "daily")
             /\ out.days_of_week =
                    (IF "days_of_week" \in DOMAIN body THEN body.days_of_week ELSE None)
             /\ last.before.habit \subseteq habit
             /\ Cardinality(habit \ last.before.habit) = 1
             /\ \A d \in habit \ last.before.habit :
                    /\ str(d._id) = out.id
                    /\ d.name = out.name /\ d.description = out.description
                    /\ d.color = out.color /\ d.frequency = out.frequency
                    /\ d.days_of_week = out.days_of_week
                    /\ d._id \notin Ids(last.before.habit) \cup Ids(last.before.habitlog)
                    /\ \A n \in FirstInc..(oid_inc - 2) : d._id # NewObjectId(n)
             /\ habitlog = last.before.habitlog
    /\ (last # NoCall /\ last.op # "create_habit") => habit \subseteq last.before.habit

\* C10 witness: a second habit is created, with defaults applied, while a log exists
C10_Witness ==
    /\ last.op = "create_habit" /\ last.status = 200
    /\ last.body.color = "#6366f1"
    /\ last.before.habit # {}
    /\ habitlog # {}

\* workers w1 and w2 hold the responses of two answered toggle_log calls for
\* the same (habit_id, day)
TogglePair(w1, w2) ==
    /\ w1 # w2
    /\ calls[w1].op = "toggle_log" /\ calls[w1].pc = "done" /\ calls[w1].status = 200
    /\ calls[w2].op = "toggle_log" /\ calls[w2].pc = "done" /\ calls[w2].status = 200
    /\ calls[w1].habit_id = calls[w2].habit_id
    /\ calls[w1].arg[1].day = calls[w2].arg[1].day

\* the lookup of w1's toggle_log and that of w2's both came before the
\* other's insert: the id each inserted had not been handed out when the other
\* looked the pair up
Raced(w1, w2) ==
    /\ TogglePair(w1, w2)
    /\ calls[w1].inserted # None /\ calls[w2].inserted # None
    /\ calls[w1].inserted[1] >= calls[w2].looked[1]
    /\ calls[w2].inserted[1] >= calls[w1].looked[1]

\* C11: two toggle_log calls for the same (habit_id, day) whose lookups both
\* came before either insert both found no log, both inserted and both answer
\* checked true: the store holds two logs for the pair, the two they inserted.
C11_ToggleRace ==
    \A w1, w2 \in Workers :
        Raced(w1, w2) =>
            LET logs == PairLogs(habitlog, calls[w1].habit_id[1],
                                 DayText(calls[w1].arg[1].day))
            IN /\ calls[w1].existing = None /\ calls[w2].existing = None
               /\ calls[w1].body = [checked |-> TRUE]
               /\ calls[w2].body = [checked |-> TRUE]
               /\ ~calls[w1].alone \/ ~calls[w2].alone
               /\ Cardinality(logs) = 2
               /\ Ids(logs) = { NewObjectId(calls[w1].inserted[1]),
                                NewObjectId(calls[w2].inserted[1]) }

\* C11 witness: two toggles of one pair, started on an empty collection, raced
C11_Witness ==
    \E w1, w2 \in Workers :
        /\ Raced(w1, w2)
        /\ calls[w1].before.habitlog = {} /\ calls[w2].before.habitlog = {}

\* C12: delete_habit deletes the habit and then the logs, as two store
\* operations.  When the second fails after the first deleted the habit, the
\* call answers 500 and ends there: the habit is gone, every log is still
\* stored, and no further store operation restores the one or retries the
\* other.
C12_NoCompensation ==
    \A w \in Workers :
        (calls[w].op = "delete_habit" /\ calls[w].pc = "done" /\ calls[w].oid # None) =>
            LET c == calls[w]
                gone == { d \in c.before.habit : d._id = c.oid[1] }
                both == <<"habit.delete_one", "habitlog.delete_many">>
            IN /\ c.status = 200 => c.ops = both
               /\ (c.ops = both /\ c.status # 200) =>
                     /\ c.status = 500
                     /\ c.body = [detail |-> "Internal Server Error"]
                     /\ gone # {}
                     /\ habit = c.before.habit \ gone
                     /\ habitlog = c.before.habitlog

\* C12 witness: the log deletion failed after the habit was deleted, and logs
\* under the request's id are in the store
C12_Witness ==
    \E w \in Workers :
        /\ calls[w].op = "delete_habit" /\ calls[w].pc = "done" /\ calls[w].status = 500
        /\ calls[w].ops = <<"habit.delete_one", "habitlog.delete_many">>
        /\ \E l \in habitlog : l.habit_id = calls[w].habit_id[1]

\* C13: every operation that takes a habit id (delete_habit, toggle_log,
\* get_logs) answers a malformed id with the client error 400 and leaves the
\* store as it was; in particular toggle_log inserts no log under a malformed
\* habit_id.
C13_InvalidArgument ==
    ( /\ last.op \in {"delete_habit", "toggle_log", "get_logs"}
      /\ db # None
      /\ ~WellFormedId(last.habit_id[1]) ) =>
        /\ last.status = 400
        /\ habit = last.before.habit
        /\ habitlog = last.before.habitlog

\* whether sequence s is an initial part of sequence t
IsPrefix(s, t) == Len(s) <= Len(t) /\ \A i \in 1..Len(s) : s[i] = t[i]

\* the store operations a call of handler op issues when none of them fails
\* and none of its early returns is taken
Plans(op) ==
    IF op = "create_habit" THEN { <<"habit.insert_one">> }
    ELSE IF op = "list_habits" THEN { <<"habit.find">> }
    ELSE IF op = "get_logs" THEN { <<"habitlog.find">> }
    ELSE IF op = "delete_habit" THEN { <<"habit.delete_one", "habitlog.delete_many">> }
    ELSE IF op = "toggle_log"
         THEN { <<"habitlog.find_one", "habitlog.insert_one">>,
                <<"habitlog.find_one", "habitlog.delete_one">> }
    ELSE { <<>> }

\* C14 as stated: a call issues at most two store operations if it is a
\* toggle_log and at most one otherwise, and a call that a store operation
\* failed is over.
C14_BoundedAsStated ==
    \A w \in Workers :
        /\ Len(calls[w].ops) <= (IF calls[w].op = "toggle_log" THEN 2 ELSE 1)
        /\ calls[w].body = StoreError.body => calls[w].pc = "done"

\* C14 amended: a call issues at most a fixed number of store operations, two
\* for toggle_log (lookup, then insert or delete), two for delete_habit (the
\* habit, then its logs) and one for every other operation, each at most
\* once and in the handler's order; a call answered 200 issued all of them, a
\* delete_habit answered 404 only the first, a call answered 400 none; and a
\* call that a store operation failed is over, with nothing issued after it.
C14_Bounded ==
    \A w \in Workers :
        LET c == calls[w] IN
        /\ \E p \in Plans(c.op) : IsPrefix(c.ops, p)
        /\ c.pc \notin {"idle", "done"} => c.ops \notin Plans(c.op)
        /\ c.body = StoreError.body => c.pc = "done" /\ c.ops # <<>>
        /\ c.pc = "done" =>
              /\ c.status = 200 => c.ops \in Plans(c.op)
              /\ c.status = 404 => c.ops = <<"habit.delete_one">>
              /\ c.status = 400 => c.ops = <<>>

\* C14 witness: a delete_habit call answered 200 after its two store operations
C14_Witness ==
    \E w \in Workers :
        /\ calls[w].op = "delete_habit" /\ calls[w].pc = "done" /\ calls[w].status = 200
        /\ calls[w].ops = <<"habit.delete_one", "habitlog.delete_many">>
        /\ calls[w].before.habitlog # habitlog

\* the logs of collection coll for a pair other than (h, d)
OtherLogs(coll, h, d) == { l \in coll : l.habit_id # h \/ l.day # d }

\* C15: against the logs as they were when the last call started, a log is new
\* only if the call was a toggle_log and is gone only if it was a toggle_log
\* or a delete_habit; every log that is still stored is the same document,
\* with the habit_id, day and value it had; and a toggle_log for (h, d) left
\* every habit and every log of another pair as they were.
C15_LogFrame ==
    last.op # "none" =>
        LET was == last.before.habitlog IN
        /\ Ids(habitlog) \ Ids(was) # {} => last.op = "toggle_log"
        /\ Ids(was) \ Ids(habitlog) # {} => last.op \in {"toggle_log", "delete_habit"}
        /\ \A l \in habitlog : l._id \in Ids(was) => l \in was
        /\ last.op = "toggle_log" =>
              LET h == last.habit_id[1]
                  d == DayText(last.arg[1].day)
              IN /\ habit = last.before.habit
                 /\ OtherLogs(habitlog, h, d) = OtherLogs(was, h, d)

\* C15 witness: a toggle_log removed the log of its pair while a habit and a
\* log of another pair were stored
C15_Witness ==
    /\ last.op = "toggle_log" /\ last.body = [checked |-> FALSE]
    /\ habit # {}
    /\ OtherLogs(habitlog, last.habit_id[1], DayText(last.arg[1].day)) # {}
    /\ habitlog # last.before.habitlog

\* C16: a toggle_log call for (h, d) that ran with no other call in flight,
\* from whatever state earlier calls left, concurrent toggles included,
\* answers checked true exactly when a log for (h, d) is stored after it.
C16_ResponseReflectsState ==
    \A w \in Workers :
        ( /\ calls[w].op = "toggle_log" /\ calls[w].pc = "done"
          /\ calls[w].status = 200 /\ calls[w].alone ) =>
            ( calls[w].body.checked
                <=> PairLogs(habitlog, calls[w].habit_id[1],
                             DayText(calls[w].arg[1].day)) # {} )

\* two answered toggles of one pair that found the same stored log
SameFound(w1, w2) ==
    /\ TogglePair(w1, w2)
    /\ calls[w1].existing # None
    /\ calls[w1].existing = calls[w2].existing

\* C17: two toggle_log calls for one pair that both read the same log both
\* delete its _id and both answer checked false, and they overlapped.  When
\* that log was the only one of the pair, no log of the pair is left: the pair
\* had a log before the two calls and has none after, where two toggles one
\* after the other leave it with one and answer false then true.
C17_ToggleOffRace ==
    \A w1, w2 \in Workers :
        SameFound(w1, w2) =>
            LET h == calls[w1].habit_id[1]
                d == DayText(calls[w1].arg[1].day)
                l == calls[w1].existing[1]
                del == <<"habitlog.find_one", "habitlog.delete_one">>
            IN /\ calls[w1].ops = del /\ calls[w2].ops = del
               /\ calls[w1].body = [checked |-> FALSE]
               /\ calls[w2].body = [checked |-> FALSE]
               /\ ~calls[w1].alone \/ ~calls[w2].alone
               /\ l \notin habitlog
               /\ ( /\ PairLogs(calls[w1].before.habitlog, h, d) = {l}
                    /\ PairLogs(calls[w2].before.habitlog, h, d) = {l} ) =>
                     /\ PairLogs(habitlog, h, d) = {}
                     /\ <<h, d>> \in Pairs(calls[w1].before.habitlog) \ Pairs(habitlog)

\* C17 witness: both calls started with the one log of the pair stored and
\* both found it
C17_Witness ==
    \E w1, w2 \in Workers :
        /\ SameFound(w1, w2)
        /\ PairLogs(calls[w1].before.habitlog, calls[w1].habit_id[1],
                    DayText(calls[w1].arg[1].day)) = {calls[w1].existing[1]}
        /\ calls[w2].before.habitlog = calls[w1].before.habitlog

\* whether collection coll holds the habit that id string h spells
HasHabit(coll, h) == \E d \in coll : str(d._id) = h

\* C18: toggle_log never reads the habit collection: every toggle_log call on
\* a configured store is answered 200 after store operations on habitlog
\* alone, whether or not a habit with its habit_id is stored, and one that
\* found no log inserted one and answered checked true.
C18_NoHabitCheck ==
    \A w \in Workers :
        (calls[w].op = "toggle_log" /\ calls[w].pc = "done" /\ db # None) =>
            /\ calls[w].status = 200
            /\ calls[w].ops \in Plans("toggle_log")
            /\ calls[w].existing = None =>
                  /\ calls[w].body = [checked |-> TRUE]
                  /\ calls[w].inserted # None

\* C18 witness: delete_habit(H) was answered 200, a toggle_log for H that
\* started with no habit H stored answered checked true, and its log is
\* stored with no habit H: a stored log without a habit, and logs of H after
\* H was deleted
C18_Witness ==
    \E w1, w2 \in Workers :
        /\ calls[w1].op = "delete_habit" /\ calls[w1].pc = "done" /\ calls[w1].status = 200
        /\ calls[w2].op = "toggle_log" /\ calls[w2].pc = "done"
        /\ calls[w2].habit_id = calls[w1].habit_id
        /\ ~HasHabit(calls[w2].before.habit, calls[w2].habit_id[1])
        /\ calls[w2].body = [checked |-> TRUE]
        /\ ~HasHabit(habit, calls[w2].habit_id[1])
        /\ \E l \in habitlog : /\ l.habit_id = calls[w2].habit_id[1]
                               /\ l._id = NewObjectId(calls[w2].inserted[1])

\* the overlapping case of C18: a toggle_log for H that started while habit H
\* was stored left its log in the store after delete_habit(H) was answered 200
C18_Overlap ==
    \E w1, w2 \in Workers :
        /\ calls[w1].op = "delete_habit" /\ calls[w1].pc = "done" /\ calls[w1].status = 200
        /\ calls[w2].op = "toggle_log" /\ calls[w2].pc = "done"
        /\ calls[w2].habit_id = calls[w1].habit_id
        /\ HasHabit(calls[w2].before.habit, calls[w2].habit_id[1])
        /\ calls[w1].ops = <<"habit.delete_one", "habitlog.delete_many">>
        /\ \E l \in habitlog : l.habit_id = calls[w2].habit_id[1]

\* C19: when delete_habit has answered 200 for an id string, in whichever
\* letter case it was spelled, no log is stored under the id create_habit
\* returned for that habit (the lowercase spelling of the ObjectId).
C19_CascadeKeyAgreement ==
    (last.op = "delete_habit" /\ last.status = 200) =>
        \A l \in habitlog : l.habit_id # str(ObjectId(last.habit_id[1]))

=============================================================================
